---- MODULE Spec2Model ----
(***************************************************************************)
(* Verification-and-entitlement reconciliation engine of GateKeeperX-Bot   *)
(* (src/src/bot.js): the webhook gateway, the event normaliser, the role   *)
(* reconciler (assignRole / handleFailedPayment) and the identity store.   *)
(*                                                                         *)
(* Every async handler is cut at its await points: one action runs the     *)
(* synchronous code from one await to the next, so handlers interleave     *)
(* exactly where the JavaScript event loop lets them.                      *)
(***************************************************************************)
EXTENDS Integers, Sequences, FiniteSets, TLC

\* ------------------------------------------------------------------ bounds
MaxWebhooks == 2      \* webhook requests received in one behaviour
MaxEmits == 2         \* events the payment provider emits in one behaviour
MaxCommands == 2      \* slash commands invoked in one behaviour

\* ------------------------------------------------------------- value sets
None == "none"
Emails == {"a@x.com", "b@y.com"}
Members == {"M1", "M2"}

\* E-mails as they are typed into a command, and String.prototype.toLowerCase.
RawEmails == Emails \cup {"A@X.com"}
ToLowerCase(raw) == IF raw = "A@X.com" THEN "a@x.com" ELSE raw

CheckoutCompleted == "checkout.session.completed"
InvoiceSucceeded == "invoice.payment_succeeded"
InvoiceFailed == "invoice.payment_failed"
PaymentFailed == "payment_intent.payment_failed"
SubscriptionDeleted == "customer.subscription.deleted"
Unhandled == "customer.created"

FailureKinds == {InvoiceFailed, PaymentFailed, SubscriptionDeleted}
HandledKinds == {CheckoutCompleted, InvoiceSucceeded} \cup FailureKinds
Modes == {"payment", "subscription"}

\* An event as the provider emits it: its type, the checkout mode (checkout
\* events only) and the payer it is about.
ProviderEvents ==
    {[type |-> CheckoutCompleted, mode |-> m, email |-> e] : m \in Modes, e \in Emails}
    \cup {[type |-> t, mode |-> None, email |-> e] :
            t \in {InvoiceSucceeded} \cup FailureKinds, e \in Emails}
    \cup {[type |-> Unhandled, mode |-> None, email |-> "a@x.com"]}

\* The e-mail carrying fields of a delivery's payload: the direct field
\* (customer_details.email, customer_email), the nested one
\* (charges.data[0].billing_details.email), each an e-mail as the provider
\* holds it or None, and whether the payload has a customer reference.
DirectPayload(e) == [direct |-> e, nested |-> None, customer |-> TRUE]
NestedPayload(e) == [direct |-> None, nested |-> e, customer |-> TRUE]
CustomerPayload == [direct |-> None, nested |-> None, customer |-> TRUE]
BarePayload == [direct |-> None, nested |-> None, customer |-> FALSE]

\* The payloads the provider sends for an event type about payer e: a checkout
\* session and an invoice have the direct field, a payment intent the nested
\* one, a subscription neither; each field may be empty.
PayloadsOf(type, e) ==
    IF type = PaymentFailed THEN {NestedPayload(e), CustomerPayload, BarePayload}
    ELSE IF type = SubscriptionDeleted THEN {CustomerPayload, BarePayload}
    ELSE IF type = Unhandled THEN {BarePayload}
    ELSE {DirectPayload(e), CustomerPayload, BarePayload}

\* The deliveries of the model: every payload for the linked payer, the fullest
\* one for the other.
PayloadsFor(ev) ==
    IF ev.email = "a@x.com" THEN PayloadsOf(ev.type, ev.email)
    ELSE IF ev.type = PaymentFailed THEN {NestedPayload(ev.email)}
    ELSE IF ev.type = SubscriptionDeleted THEN {CustomerPayload}
    ELSE {DirectPayload(ev.email)}

\* Payloads with every combination of the two e-mail fields, differing when
\* both are there and one of them in capital letters; a payload with an e-mail
\* field has the customer reference too.
AnyPayloads(ev) ==
    {[direct |-> d, nested |-> n, customer |-> TRUE] :
        d \in {None, "A@X.com"}, n \in {None, "b@y.com"}}
    \cup {BarePayload}

\* stripe.checkout.sessions.list({ customer, limit: 10 })
SessionLimit == 10

\* A customer record of the provider: whether it has an active subscription,
\* and the payment_status of its checkout sessions, the most recent first.
Unpaid(n) == [x \in 1..n |-> "unpaid"]
SessionLists ==
    {<<>>, <<"paid">>, Unpaid(SessionLimit - 1) \o <<"paid">>, Unpaid(SessionLimit) \o <<"paid">>}
Customer(sub, sessions) == [sub |-> sub, sessions |-> sessions]
NoCustomers == [e \in Emails |-> <<>>]

\* The payloads each event is delivered with.
ProviderPayloads == [ev \in ProviderEvents |-> PayloadsFor(ev)]
NormalizerPayloads == [ev \in ProviderEvents |-> AnyPayloads(ev)]

NoEvent == [type |-> None, mode |-> None, email |-> None]
NoPayload == [direct |-> None, nested |-> None, customer |-> FALSE]

VARIABLES
    db,          \* durable store (User collection): email -> discordId or None
    roles,       \* members of the guild that hold ROLE_ID
    secret,      \* process.env.STRIPE_WEBHOOK_SECRET is set
    guildCached, \* client.guilds.cache holds GUILD_ID
    roleCached,  \* guild.roles.cache holds ROLE_ID
    activeSub,   \* provider: email -> the payer has an active subscription
    pending,     \* provider: emitted events still to be (re)delivered
    emitted,     \* number of events the provider has emitted
    customers,   \* provider: email -> its customer records, in listing order
    wh,          \* webhook handler invocations, one per request
    verifiedUsers, \* in-memory mapping, as Object.entries lists it
    file,        \* content of verifiedUsers.json
    cmd,         \* interactionCreate handler invocations, one per command
    load         \* the loadVerifiedUsers call of the ready handler

config == <<secret, guildCached, roleCached>>
provider == <<activeSub, pending, emitted, customers>>
cmdVars == <<verifiedUsers, file, cmd, load>>
vars == <<db, roles, config, provider, wh, load, cmdVars>>

Slots == 1..MaxWebhooks

IdleHandler ==
    [pc |-> "idle", sig |-> None, ev |-> NoEvent, payload |-> NoPayload,
     email |-> None, path |-> None, userId |-> None, ops |-> {}, threw |-> {},
     outcome |-> None, status |-> 0]

InFlight(h) == h.pc \notin {"idle", "done"}

\* ---------------------------------------------------------------- helpers
\* res.sendStatus(code): the request is answered and the handler is over.
Respond(h, code) == [h EXCEPT !.pc = "done", !.status = code]

\* The handler issues an awaited call and parks at it.
Await(h, op) == [h EXCEPT !.pc = op, !.ops = @ \cup {op}]

\* The awaited call of the handler rejected.
Threw(h) == [h EXCEPT !.threw = @ \cup {h.pc}]

\* ------------------------------------------------------- payment provider
\* The provider emits an event about a payer; a subscription checkout or a paid
\* invoice makes the payer's subscription active, a failed payment or a deleted
\* subscription ends it.  The event waits in `pending` for its deliveries.
Emit(ev) ==
    /\ emitted < MaxEmits
    /\ emitted' = emitted + 1
    /\ pending' = pending \cup {ev}
    /\ activeSub' =
         IF \/ ev.type = InvoiceSucceeded
            \/ (ev.type = CheckoutCompleted /\ ev.mode = "subscription")
         THEN [activeSub EXCEPT ![ev.email] = TRUE]
         ELSE IF ev.type \in FailureKinds
         THEN [activeSub EXCEPT ![ev.email] = FALSE]
         ELSE activeSub
    /\ UNCHANGED <<db, roles, config, customers, wh, cmdVars>>

\* --------------------------------------------------------- event normaliser
\* x?.toLowerCase() of a field that may be missing.
Lowered(x) == IF x = None THEN None ELSE ToLowerCase(x)

\* PayloadEmail taking the nested field before the direct one.
PayloadEmailNestedFirst(type, p) ==
    IF type \in {CheckoutCompleted, InvoiceSucceeded} THEN Lowered(p.direct)
    ELSE IF p.nested # None THEN Lowered(p.nested)
    ELSE Lowered(p.direct)

\* The e-mail the payload itself yields (bot.js 373, 401, 426): the direct
\* field, and for the failure kinds `direct || nested`.
PayloadEmail(type, p) ==
    IF type \in {CheckoutCompleted, InvoiceSucceeded} THEN Lowered(p.direct)
    ELSE IF p.direct # None THEN Lowered(p.direct)
    ELSE Lowered(p.nested)

\* RouteOf without the mode check of the checkout case.
RouteOfAnyMode(type, mode) ==
    IF type \in {CheckoutCompleted, InvoiceSucceeded} THEN "assignRole"
    ELSE IF type \in FailureKinds THEN "handleFailedPayment"
    ELSE None

\* RouteOf with payment_intent.payment_failed under the wrong case label.
RouteOfMisfiled(type, mode) ==
    IF type = CheckoutCompleted
    THEN IF mode = "subscription" THEN "assignRole" ELSE None
    ELSE IF type \in {InvoiceSucceeded, PaymentFailed} THEN "assignRole"
    ELSE IF type \in FailureKinds THEN "handleFailedPayment"
    ELSE None

\* The helper the switch calls for an event with a resolved e-mail.
RouteOf(type, mode) ==
    IF type = CheckoutCompleted
    THEN IF mode = "payment" THEN None
         ELSE IF mode = "subscription" THEN "assignRole"
         ELSE None
    ELSE IF type = InvoiceSucceeded THEN "assignRole"
    ELSE IF type \in FailureKinds THEN "handleFailedPayment"
    ELSE None

\* assignRole / handleFailedPayment are entered: both start with
\* `await User.findOne({ email })`.
Dispatch(h) ==
    LET r == RouteOf(h.ev.type, h.ev.mode) IN
    IF r = None THEN Respond(h, 200)
    ELSE Await([h EXCEPT !.path = r], "findOne")

\* `if (!email) return res.sendStatus(200)`, else the mode check and the helper.
AfterEmail(h, email) ==
    IF email = None THEN Respond(h, 200)
    ELSE Dispatch([h EXCEPT !.email = email])

\* The switch over event.type up to its first await.
Normalize(h) ==
    IF h.ev.type \notin HandledKinds THEN Respond(h, 200)
    ELSE LET email == PayloadEmail(h.ev.type, h.payload) IN
         IF email = None /\ h.payload.customer
         THEN Await(h, "retrieve")
         ELSE AfterEmail(h, email)

\* ----------------------------------------------------------- webhook gateway
\* Verifies accepting whatever signature the request carries.
VerifiesAnything(sig) == TRUE

\* stripe.webhooks.constructEvent accepts the signature.
Verifies(sig) == sig = "good"

\* Gateway without the check of the signing secret.
GatewayUnchecked(h) ==
    IF h.sig = None THEN Respond(h, 400)
    ELSE IF ~Verifies(h.sig) THEN Respond(h, 400)
    ELSE IF ~guildCached THEN Respond(h, 400)
    ELSE Normalize(h)

\* app.post('/webhook') from its first line to its first await.
Gateway(h) ==
    IF h.sig = None THEN Respond(h, 400)
    ELSE IF ~secret THEN Respond(h, 500)
    ELSE IF ~Verifies(h.sig) THEN Respond(h, 400)
    ELSE IF ~guildCached THEN Respond(h, 400)
    ELSE Normalize(h)

\* Requests that do not come from the provider carry no valid signature.
ForgedEvents ==
    {[type |-> t, mode |-> None, email |-> "a@x.com"] : t \in {InvoiceSucceeded, InvoiceFailed}}

\* A request reaches POST /webhook.  A validly signed one is a delivery of one
\* of the provider's events (source) with one of the payloads it can have
\* (payloads); with keep the provider delivers it again later.
Receive(i, source, keeps, payloads) ==
    /\ wh[i].pc = "idle"
    /\ \A j \in Slots : j < i => wh[j].pc # "idle"
    /\ \E sig \in {None, "bad", "good"}, keep \in keeps :
       \E ev \in (IF sig = "good" THEN source ELSE ForgedEvents) :
       \E p \in (IF sig = "good" THEN payloads[ev] ELSE {DirectPayload(ev.email)}) :
          /\ sig # "good" => keep = (TRUE \in keeps)
          /\ pending' = IF keep THEN pending ELSE pending \ {ev}
          /\ wh' = [wh EXCEPT ![i] =
                      Gateway([wh[i] EXCEPT !.sig = sig, !.ev = ev, !.payload = p])]
    /\ UNCHANGED <<db, roles, config, activeSub, emitted, customers, cmdVars>>

\* AfterRetrieve with the rejection of the lookup not caught.
AfterRetrieveUncaught(h, res) ==
    IF res = "email" THEN AfterEmail(h, ToLowerCase(h.ev.email))
    ELSE IF res = "noemail" THEN AfterEmail(h, None)
    ELSE Respond(Threw(h), 400)

\* stripe.customers.retrieve returns (with the customer's e-mail, or without
\* one) or rejects; a rejection is caught and leaves the e-mail unresolved.
AfterRetrieve(h, res) ==
    IF res = "email" THEN AfterEmail(h, ToLowerCase(h.ev.email))
    ELSE IF res = "noemail" THEN AfterEmail(h, None)
    ELSE AfterEmail(Threw(h), None)

RetrieveReturn(i) ==
    /\ wh[i].pc = "retrieve"
    /\ \E res \in {"email", "noemail", "throw"} :
         wh' = [wh EXCEPT ![i] = AfterRetrieve(wh[i], res)]
    /\ UNCHANGED <<db, roles, config, provider, cmdVars>>

\* ------------------------------------------------------------ role reconciler
\* HasRole with the role cache never holding the role, and always holding it.
HasRoleNever(userId) == FALSE
HasRoleAlways(userId) == TRUE

\* member.roles.cache.has(role.id).  The cache is taken to show a role from
\* the moment the roles.add that gave it returns, until the roles.remove
\* that takes it returns.
HasRole(userId) == userId \in roles

\* AfterFindOne without the `if (!user?.discordId) return`.
AfterFindOneUnchecked(h, ok) ==
    IF ~ok THEN Respond(Threw(h), 400)
    ELSE Await([h EXCEPT !.userId = db[h.email]], "fetch")

\* User.findOne returns: a rejection leaves the helper (it is outside its try)
\* and reaches the catch of the webhook handler.
AfterFindOne(h, ok) ==
    IF ~ok THEN Respond(Threw(h), 400)
    ELSE IF db[h.email] = None
    THEN Respond([h EXCEPT !.outcome = "NoUser"], 200)
    ELSE Await([h EXCEPT !.userId = db[h.email]], "fetch")

FindOneReturn(i) ==
    /\ wh[i].pc = "findOne"
    /\ \E ok \in BOOLEAN :
         wh' = [wh EXCEPT ![i] = AfterFindOne(wh[i], ok)]
    /\ UNCHANGED <<db, roles, config, provider, cmdVars>>

\* The synchronous checks between guild.members.fetch and the role call.
AfterFetch(h, res) ==
    IF res = "throw" THEN Respond([Threw(h) EXCEPT !.outcome = "Failed"], 200)
    ELSE IF ~roleCached THEN Respond([h EXCEPT !.outcome = "RoleNotFound"], 200)
    ELSE IF res = "null" THEN Respond([h EXCEPT !.outcome = "MemberNotFound"], 200)
    ELSE IF h.path = "assignRole"
    THEN IF HasRole(h.userId)
         THEN Respond([h EXCEPT !.outcome = "AlreadyGranted"], 200)
         ELSE Await(h, "add")
    ELSE IF ~HasRole(h.userId)
         THEN Respond([h EXCEPT !.outcome = "AlreadyAbsent"], 200)
         ELSE Await(h, "remove")

FetchReturn(i) ==
    /\ wh[i].pc = "fetch"
    /\ \E res \in {"member", "null", "throw"} :
         wh' = [wh EXCEPT ![i] = AfterFetch(wh[i], res)]
    /\ UNCHANGED <<db, roles, config, provider, cmdVars>>

\* member.roles.add returns.
AfterAdd(h, ok) ==
    IF ok THEN Respond([h EXCEPT !.outcome = "Granted"], 200)
    ELSE Respond([Threw(h) EXCEPT !.outcome = "Failed"], 200)

AddReturn(i) ==
    /\ wh[i].pc = "add"
    /\ \E ok \in BOOLEAN :
         /\ roles' = IF ok THEN roles \cup {wh[i].userId} ELSE roles
         /\ wh' = [wh EXCEPT ![i] = AfterAdd(wh[i], ok)]
    /\ UNCHANGED <<db, config, provider, cmdVars>>

\* member.roles.remove returns; on success the notification is sent next.
AfterRemove(h, ok) ==
    IF ok THEN Await([h EXCEPT !.outcome = "Revoked"], "send")
    ELSE Respond([Threw(h) EXCEPT !.outcome = "Failed"], 200)

RemoveReturn(i) ==
    /\ wh[i].pc = "remove"
    /\ \E ok \in BOOLEAN :
         /\ roles' = IF ok THEN roles \ {wh[i].userId} ELSE roles
         /\ wh' = [wh EXCEPT ![i] = AfterRemove(wh[i], ok)]
    /\ UNCHANGED <<db, config, provider, cmdVars>>

\* AfterSend with the rejection of member.send reaching the webhook's catch.
AfterSendEscalated(h, ok) == IF ok THEN Respond(h, 200) ELSE Respond(Threw(h), 400)

\* member.send returns; its rejection is caught by the inner try.
AfterSend(h, ok) == IF ok THEN Respond(h, 200) ELSE Respond(Threw(h), 200)

SendReturn(i) ==
    /\ wh[i].pc = "send"
    /\ \E ok \in BOOLEAN :
         wh' = [wh EXCEPT ![i] = AfterSend(wh[i], ok)]
    /\ UNCHANGED <<db, roles, config, provider, cmdVars>>

\* -------------------------------------------------------------- identity store
\* A JavaScript object with string keys, in insertion order.
Lookup(obj, email) ==
    IF \E n \in 1..Len(obj) : obj[n].email = email
    THEN (CHOOSE r \in {obj[n] : n \in 1..Len(obj)} : r.email = email).id
    ELSE None

\* Put keeping the link an e-mail already has.
PutFirstWins(obj, email, id) ==
    IF Lookup(obj, email) # None THEN obj
    ELSE Append(obj, [email |-> email, id |-> id])

\* obj[email] = id: an existing key keeps its place, a new one goes last.
Put(obj, email, id) ==
    IF Lookup(obj, email) # None
    THEN [n \in 1..Len(obj) |-> IF obj[n].email = email THEN [email |-> email, id |-> id]
                                 ELSE obj[n]]
    ELSE Append(obj, [email |-> email, id |-> id])

\* delete obj[email]
Delete(obj, email) == SelectSeq(obj, LAMBDA r : r.email # email)

Commands == 1..MaxCommands

IdleCommand ==
    [pc |-> "idle", name |-> None, email |-> None, userId |-> None, seen |-> None,
     todo |-> <<>>, snap |-> <<>>, ops |-> {}, threw |-> {}, reply |-> None,
     escaped |-> FALSE,
     found |-> 0, at |-> 0, log |-> <<>>, hit |-> FALSE, call |-> IdleHandler]

\* The awaited call rejected outside any try: the rejection leaves the handler.
Escape(c) == [c EXCEPT !.pc = "done", !.threw = @ \cup {c.pc}, !.escaped = TRUE]

\* interaction.reply rejected: the catch around it logs and the handler ends.
ReplyFailed(c) == [c EXCEPT !.pc = "done", !.threw = @ \cup {c.pc}]

\* interaction.reply is issued with the given content.
Reply(c, content) == [c EXCEPT !.pc = "reply", !.ops = @ \cup {"reply"}, !.reply = content]

\* saveVerifiedUsers is entered: JSON.stringify(verifiedUsers) is taken and
\* fs.writeFile issued.
Save(c, obj) == [c EXCEPT !.pc = "writeFile", !.ops = @ \cup {"writeFile"}, !.snap = obj]

\* The reply that follows saveVerifiedUsers in the command.
Confirmation(c) == IF c.name = "verify" THEN "verified" ELSE "unlinked"

\* The sweep of saveVerifiedUsers goes on with the entries left, or is over.
Sweep(c, entries) ==
    IF entries = <<>> THEN Reply([c EXCEPT !.todo = <<>>], Confirmation(c))
    ELSE [c EXCEPT !.pc = "updateOne", !.ops = @ \cup {"updateOne"}, !.todo = entries]

\* Owns letting a member unlink whatever link the e-mail has.
OwnsAnyLink(obj, email, userId) == Lookup(obj, email) # None

\* verifiedUsers[email] === userId
Owns(obj, email, userId) == Lookup(obj, email) = userId

\* A /verify or /unverify command arrives: the handler runs to its first await.
Invoke(k) ==
    /\ cmd[k].pc = "idle"
    /\ \A j \in Commands : j < k => cmd[j].pc # "idle"
    /\ \E name \in {"verify", "unverify"}, raw \in RawEmails, userId \in Members :
         LET email == ToLowerCase(raw)
             c == [cmd[k] EXCEPT !.name = name, !.email = email, !.userId = userId,
                                 !.seen = Lookup(verifiedUsers, email)]
         IN  cmd' = [cmd EXCEPT ![k] =
                IF name = "verify"
                THEN [c EXCEPT !.pc = "findOneAndUpdate", !.ops = @ \cup {"findOneAndUpdate"}]
                ELSE IF Owns(verifiedUsers, email, userId)
                THEN [c EXCEPT !.pc = "findOneAndDelete", !.ops = @ \cup {"findOneAndDelete"}]
                ELSE Reply(c, "notLinked")]
    /\ UNCHANGED <<db, roles, config, provider, wh, load, verifiedUsers, file>>

\* User.findOneAndUpdate returns; verifiedUsers[email] = userId; the save starts.
UpdateReturn(k) ==
    /\ cmd[k].pc = "findOneAndUpdate"
    /\ \E ok \in BOOLEAN :
         IF ok
         THEN LET obj == Put(verifiedUsers, cmd[k].email, cmd[k].userId) IN
              /\ db' = [db EXCEPT ![cmd[k].email] = cmd[k].userId]
              /\ verifiedUsers' = obj
              /\ cmd' = [cmd EXCEPT ![k] = Save(cmd[k], obj)]
         ELSE /\ cmd' = [cmd EXCEPT ![k] = Escape(cmd[k])]
              /\ UNCHANGED <<db, verifiedUsers>>
    /\ UNCHANGED <<roles, config, provider, wh, load, file>>

\* User.findOneAndDelete({ email, discordId }) returns; delete
\* verifiedUsers[email]; the save starts.
DeleteReturn(k) ==
    /\ cmd[k].pc = "findOneAndDelete"
    /\ \E ok \in BOOLEAN :
         IF ok
         THEN LET obj == Delete(verifiedUsers, cmd[k].email) IN
              /\ db' = IF db[cmd[k].email] = cmd[k].userId
                       THEN [db EXCEPT ![cmd[k].email] = None] ELSE db
              /\ verifiedUsers' = obj
              /\ cmd' = [cmd EXCEPT ![k] = Save(cmd[k], obj)]
         ELSE /\ cmd' = [cmd EXCEPT ![k] = Escape(cmd[k])]
              /\ UNCHANGED <<db, verifiedUsers>>
    /\ UNCHANGED <<roles, config, provider, wh, load, file>>

\* fs.writeFile returns; the sweep starts over Object.entries(verifiedUsers).
WriteReturn(k) ==
    /\ cmd[k].pc = "writeFile"
    /\ \E ok \in BOOLEAN :
         IF ok
         THEN /\ file' = cmd[k].snap
              /\ cmd' = [cmd EXCEPT ![k] = Sweep(cmd[k], verifiedUsers)]
         ELSE /\ cmd' = [cmd EXCEPT ![k] = Escape(cmd[k])]
              /\ UNCHANGED file
    /\ UNCHANGED <<db, roles, config, provider, wh, load, verifiedUsers>>

\* User.updateOne({ email }, { $set: { discordId } }, { upsert: true }) returns
\* for the first entry left.
UpdateOneReturn(k) ==
    /\ cmd[k].pc = "updateOne"
    /\ \E ok \in BOOLEAN :
         IF ok
         THEN /\ db' = [db EXCEPT ![Head(cmd[k].todo).email] = Head(cmd[k].todo).id]
              /\ cmd' = [cmd EXCEPT ![k] = Sweep(cmd[k], Tail(cmd[k].todo))]
         ELSE /\ cmd' = [cmd EXCEPT ![k] = Escape(cmd[k])]
              /\ UNCHANGED db
    /\ UNCHANGED <<roles, config, provider, wh, load, verifiedUsers, file>>

\* interaction.reply returns; its rejection is caught and logged.
ReplyReturn(k) ==
    /\ cmd[k].pc = "reply"
    /\ \E ok \in BOOLEAN :
         cmd' = [cmd EXCEPT ![k] =
                   IF ok THEN [cmd[k] EXCEPT !.pc = "done"] ELSE ReplyFailed(cmd[k])]
    /\ UNCHANGED <<db, roles, config, provider, wh, load, verifiedUsers, file>>

\* ------------------------------------------------------------------ reload
\* loadVerifiedUsers has been called and is at fs.readFile; it is over.
Loading == [IdleCommand EXCEPT !.name = "load", !.pc = "readFile", !.ops = {"readFile"}]
Loaded == [IdleCommand EXCEPT !.name = "load", !.pc = "done"]

\* The sweep of saveVerifiedUsers called by loadVerifiedUsers goes on with the
\* entries left, or is over and loadVerifiedUsers with it.
LoadSweep(c, entries) ==
    IF entries = <<>> THEN [c EXCEPT !.pc = "done", !.todo = <<>>]
    ELSE [c EXCEPT !.pc = "updateOne", !.ops = @ \cup {"updateOne"}, !.todo = entries]

\* fs.readFile returns the file and JSON.parse gives the mapping it holds, or
\* the file is absent (readFile rejects) or corrupt (JSON.parse throws): the
\* catch calls saveVerifiedUsers.
LoadRead ==
    /\ load.pc = "readFile"
    /\ \E res \in {"data", "absent", "corrupt"} :
         IF res = "data"
         THEN /\ verifiedUsers' = file
              /\ load' = [load EXCEPT !.pc = "done"]
         ELSE /\ load' = Save([load EXCEPT !.threw = @ \cup {"readFile"}], verifiedUsers)
              /\ UNCHANGED verifiedUsers
    /\ UNCHANGED <<db, roles, config, provider, wh, file, cmd>>

\* fs.writeFile of the save called by loadVerifiedUsers returns; a rejection
\* leaves loadVerifiedUsers, which nothing awaits.
LoadWrite ==
    /\ load.pc = "writeFile"
    /\ \E ok \in BOOLEAN :
         IF ok
         THEN /\ file' = load.snap
              /\ load' = LoadSweep(load, verifiedUsers)
         ELSE /\ load' = Escape(load)
              /\ UNCHANGED file
    /\ UNCHANGED <<db, roles, config, provider, wh, verifiedUsers, cmd>>

\* User.updateOne of that save returns for the first entry left.
LoadUpdateOne ==
    /\ load.pc = "updateOne"
    /\ \E ok \in BOOLEAN :
         IF ok
         THEN /\ db' = [db EXCEPT ![Head(load.todo).email] = Head(load.todo).id]
              /\ load' = LoadSweep(load, Tail(load.todo))
         ELSE /\ load' = Escape(load)
              /\ UNCHANGED db
    /\ UNCHANGED <<roles, config, provider, wh, verifiedUsers, file, cmd>>

\* ------------------------------------------------------- entitlement check
\* The customer records the model's provider may hold for a payer.
CustomerLists ==
    {<<>>,
     <<Customer(TRUE, <<>>)>>,
     <<Customer(FALSE, <<"paid">>)>>,
     <<Customer(FALSE, Unpaid(SessionLimit) \o <<"paid">>)>>,
     <<Customer(FALSE, <<>>), Customer(FALSE, Unpaid(SessionLimit - 1) \o <<"paid">>)>>,
     <<Customer(TRUE, <<>>), Customer(TRUE, <<"paid">>)>>,
     <<Customer(FALSE, <<>>), Customer(FALSE, <<>>)>>}

\* SessionsList without the limit.
SessionsListAll(customer, limit) == customer.sessions

\* What checkout.sessions.list({ customer, limit }) returns: the most recent
\* sessions of the customer, `limit` of them at most.
SessionsList(customer, limit) ==
    SubSeq(customer.sessions, 1,
           IF Len(customer.sessions) < limit THEN Len(customer.sessions) ELSE limit)

\* sessions.data.some((s) => s.payment_status === 'paid')
SomePaid(sessions) == \E n \in 1..Len(sessions) : sessions[n] = "paid"

\* The handler issues a provider query about the customer it is at.
Query(c, op) ==
    [c EXCEPT !.pc = op, !.ops = @ \cup {op}, !.log = Append(@, [op |-> op, at |-> c.at])]

\* CheckFailed replying as if nothing had been found.
CheckFailedAsInactive(c) == Reply([c EXCEPT !.threw = @ \cup {c.pc}], "noPayment")

\* An awaited call rejected inside the outer try of /checkpayment: its catch
\* replies.
CheckFailed(c) == Reply([c EXCEPT !.threw = @ \cup {c.pc}], "error")

\* A /checkpayment command arrives: the handler runs to its first await.
InvokeCheck(k) ==
    /\ cmd[k].pc = "idle"
    /\ \A j \in Commands : j < k => cmd[j].pc # "idle"
    /\ \E raw \in RawEmails, userId \in Members :
         LET email == ToLowerCase(raw)
             c == [cmd[k] EXCEPT !.name = "checkpayment", !.email = email,
                                 !.userId = userId, !.seen = Lookup(verifiedUsers, email)]
         IN  cmd' = [cmd EXCEPT ![k] =
                IF ~Owns(verifiedUsers, email, userId) THEN Reply(c, "notVerified")
                ELSE Query(c, "customers.list")]
    /\ UNCHANGED <<db, roles, config, provider, wh, load, verifiedUsers, file>>

\* hasActivePayment = true; break; then the guild check and the call of
\* assignRole, which starts with `await User.findOne({ email })`.
Entitled(c) ==
    IF ~guildCached THEN Reply([c EXCEPT !.hit = TRUE], "serverError")
    ELSE [c EXCEPT !.hit = TRUE, !.pc = "assignRole", !.ops = @ \cup {"assignRole"},
                   !.call = Await([IdleHandler EXCEPT !.email = c.email,
                                                      !.path = "assignRole"], "findOne")]

\* stripe.customers.list({ email }) returns.
AfterCustomers(c, ok) ==
    IF ~ok THEN CheckFailed(c)
    ELSE IF Len(customers[c.email]) = 0 THEN Reply(c, "noCustomer")
    ELSE Query([c EXCEPT !.found = Len(customers[c.email]), !.at = 1], "subscriptions.list")

CustomersReturn(k) ==
    /\ cmd[k].pc = "customers.list"
    /\ \E ok \in BOOLEAN :
         cmd' = [cmd EXCEPT ![k] = AfterCustomers(cmd[k], ok)]
    /\ UNCHANGED <<db, roles, config, provider, wh, load, verifiedUsers, file>>

\* stripe.subscriptions.list({ customer, status: 'active' }) returns.
AfterSubscriptions(c, ok) ==
    IF ~ok THEN CheckFailed(c)
    ELSE IF customers[c.email][c.at].sub THEN Entitled(c)
    ELSE Query(c, "checkout.sessions.list")

SubscriptionsReturn(k) ==
    /\ cmd[k].pc = "subscriptions.list"
    /\ \E ok \in BOOLEAN :
         cmd' = [cmd EXCEPT ![k] = AfterSubscriptions(cmd[k], ok)]
    /\ UNCHANGED <<db, roles, config, provider, wh, load, verifiedUsers, file>>

\* stripe.checkout.sessions.list({ customer, limit: 10 }) returns; without a
\* paid session the loop goes to the next customer, or is over.
AfterSessions(c, ok) ==
    IF ~ok THEN CheckFailed(c)
    ELSE IF SomePaid(SessionsList(customers[c.email][c.at], SessionLimit)) THEN Entitled(c)
    ELSE IF c.at < c.found THEN Query([c EXCEPT !.at = @ + 1], "subscriptions.list")
    ELSE Reply(c, "noPayment")

SessionsReturn(k) ==
    /\ cmd[k].pc = "checkout.sessions.list"
    /\ \E ok \in BOOLEAN :
         cmd' = [cmd EXCEPT ![k] = AfterSessions(cmd[k], ok)]
    /\ UNCHANGED <<db, roles, config, provider, wh, load, verifiedUsers, file>>

\* A step of the assignRole call is over: the call goes on, or it rejected
\* (User.findOne is outside its try) and the outer catch replies, or it
\* returned and the success reply follows.
Resume(c, call) ==
    IF call.pc # "done" THEN [c EXCEPT !.call = call]
    ELSE IF "findOne" \in call.threw THEN CheckFailed([c EXCEPT !.call = call])
    ELSE Reply([c EXCEPT !.call = call], "success")

Assigning(k, op) == cmd[k].pc = "assignRole" /\ cmd[k].call.pc = op

CallFindOneReturn(k) ==
    /\ Assigning(k, "findOne")
    /\ \E ok \in BOOLEAN :
         cmd' = [cmd EXCEPT ![k] = Resume(cmd[k], AfterFindOne(cmd[k].call, ok))]
    /\ UNCHANGED <<db, roles, config, provider, wh, load, verifiedUsers, file>>

CallFetchReturn(k) ==
    /\ Assigning(k, "fetch")
    /\ \E res \in {"member", "null", "throw"} :
         cmd' = [cmd EXCEPT ![k] = Resume(cmd[k], AfterFetch(cmd[k].call, res))]
    /\ UNCHANGED <<db, roles, config, provider, wh, load, verifiedUsers, file>>

CallAddReturn(k) ==
    /\ Assigning(k, "add")
    /\ \E ok \in BOOLEAN :
         /\ roles' = IF ok THEN roles \cup {cmd[k].call.userId} ELSE roles
         /\ cmd' = [cmd EXCEPT ![k] = Resume(cmd[k], AfterAdd(cmd[k].call, ok))]
    /\ UNCHANGED <<db, config, provider, wh, load, verifiedUsers, file>>

\* ------------------------------------------------------------ specification
\* The links made before the behaviour starts: a@x.com is linked to M1,
\* b@y.com is linked to nobody.
InitLinks == [e \in Emails |-> IF e = "a@x.com" THEN "M1" ELSE None]

\* The provider has emitted nothing, and the mapping, its file and the store
\* agree on the links.  Each specification adds the handler records of the
\* side it exercises: the other side has none.
InitHandlers ==
    /\ db = InitLinks
    /\ verifiedUsers = <<[email |-> "a@x.com", id |-> "M1"]>>
    /\ file = verifiedUsers
    /\ pending = {}
    /\ emitted = 0
    /\ customers = NoCustomers
    /\ load = Loaded

\* The role state starts in line with the provider's entitlement.
Init ==
    /\ InitHandlers
    /\ wh = [i \in Slots |-> IdleHandler]
    /\ cmd = <<>>
    /\ secret \in BOOLEAN
    /\ guildCached \in BOOLEAN
    /\ roleCached \in BOOLEAN
    /\ activeSub \in {[e \in Emails |-> e = "a@x.com" /\ b] : b \in BOOLEAN}
    /\ roles = {db[e] : e \in {x \in Emails : activeSub[x] /\ db[x] # None}}

\* The commands below read neither the configuration nor the provider.
InitCmd ==
    /\ InitHandlers
    /\ wh = <<>>
    /\ cmd = [k \in Commands |-> IdleCommand]
    /\ secret = TRUE /\ guildCached = TRUE /\ roleCached = TRUE
    /\ activeSub = [e \in Emails |-> FALSE]
    /\ roles = {}

ProviderEmits == \E ev \in ProviderEvents : Emit(ev)
\* The provider delivers an event it emitted, in any order, once or again.
ProviderDelivers == \E i \in Slots : Receive(i, pending, BOOLEAN, ProviderPayloads)
\* Any event of the provider arrives, at any time, any number of times.
WebhookReceive == \E i \in Slots : Receive(i, ProviderEvents, {TRUE}, ProviderPayloads)
WebhookRetrieve == \E i \in Slots : RetrieveReturn(i)
WebhookFindOne == \E i \in Slots : FindOneReturn(i)
WebhookFetch == \E i \in Slots : FetchReturn(i)
WebhookAdd == \E i \in Slots : AddReturn(i)
WebhookRemove == \E i \in Slots : RemoveReturn(i)
WebhookSend == \E i \in Slots : SendReturn(i)

WebhookStep ==
    \/ WebhookRetrieve
    \/ WebhookFindOne
    \/ WebhookFetch
    \/ WebhookAdd
    \/ WebhookRemove
    \/ WebhookSend

\* The gateway and the reconciler under arbitrary deliveries, the handlers of
\* concurrent requests interleaving at their await points.
Next ==
    \/ WebhookReceive
    \/ WebhookStep

Spec == Init /\ [][Next]_vars

\* The same with the provider's side: what it emits, the entitlement that goes
\* with it, and the deliveries still due.
NextProvider ==
    \/ ProviderEmits
    \/ ProviderDelivers
    \/ WebhookStep

SpecProvider == Init /\ [][NextProvider]_vars

\* The identity store under /verify and /unverify commands, the handlers of
\* concurrent commands interleaving at their await points.
CommandInvoke == \E k \in Commands : Invoke(k)
CommandUpdate == \E k \in Commands : UpdateReturn(k)
CommandDelete == \E k \in Commands : DeleteReturn(k)
CommandWrite == \E k \in Commands : WriteReturn(k)
CommandUpdateOne == \E k \in Commands : UpdateOneReturn(k)
CommandReply == \E k \in Commands : ReplyReturn(k)

NextCmd ==
    \/ CommandInvoke
    \/ CommandUpdate
    \/ CommandDelete
    \/ CommandWrite
    \/ CommandUpdateOne
    \/ CommandReply

SpecCmd == InitCmd /\ [][NextCmd]_vars

\* The same with every handler that can take a step taking one in the end:
\* an awaited call returns or rejects, it does not stay pending for ever.
SpecCmdFair == InitCmd /\ [][NextCmd]_vars /\ WF_vars(NextCmd)

\* The same with one command handled at a time.
NoCommandInFlight == \A k \in Commands : cmd[k].pc \in {"idle", "done"}

NextCmdSeq ==
    \/ NoCommandInFlight /\ CommandInvoke
    \/ CommandUpdate
    \/ CommandDelete
    \/ CommandWrite
    \/ CommandUpdateOne
    \/ CommandReply

SpecCmdSeq == InitCmd /\ [][NextCmdSeq]_vars

\* Startup: the ready handler has called loadVerifiedUsers without awaiting
\* it, the mapping is still the empty object of the module, and the file holds
\* what an earlier run saved; commands arrive while the reload goes on.
InitLoad ==
    /\ file \in {<<>>, <<[email |-> "a@x.com", id |-> "M1"]>>}
    /\ db = [e \in Emails |-> Lookup(file, e)]
    /\ verifiedUsers = <<>>
    /\ secret = TRUE /\ guildCached = TRUE /\ roleCached = TRUE
    /\ activeSub = [e \in Emails |-> FALSE]
    /\ roles = {}
    /\ pending = {}
    /\ emitted = 0
    /\ customers = NoCustomers
    /\ wh = <<>>
    /\ cmd = [k \in Commands |-> IdleCommand]
    /\ load = Loading

NextLoad ==
    \/ LoadRead
    \/ LoadWrite
    \/ LoadUpdateOne
    \/ NoCommandInFlight /\ CommandInvoke
    \/ CommandUpdate
    \/ CommandDelete
    \/ CommandWrite
    \/ CommandUpdateOne
    \/ CommandReply

SpecLoad == InitLoad /\ [][NextLoad]_vars

\* /checkpayment commands against a provider holding any of the customer
\* lists, the store with or without the record the mapping has.
InitCheck ==
    /\ db \in {InitLinks, [e \in Emails |-> None]}
    /\ verifiedUsers = <<[email |-> "a@x.com", id |-> "M1"]>>
    /\ file = verifiedUsers
    /\ secret = TRUE
    /\ guildCached \in BOOLEAN
    /\ roleCached \in BOOLEAN
    /\ customers \in {[e \in Emails |-> IF e = "a@x.com" THEN l ELSE <<>>] : l \in CustomerLists}
    /\ activeSub = [e \in Emails |-> \E n \in 1..Len(customers[e]) : customers[e][n].sub]
    /\ roles \in {{}, {"M1"}}
    /\ pending = {}
    /\ emitted = 0
    /\ wh = <<>>
    /\ cmd = [k \in Commands |-> IdleCommand]
    /\ load = Loaded

CheckInvoke == \E k \in Commands : InvokeCheck(k)
CheckCustomers == \E k \in Commands : CustomersReturn(k)
CheckSubscriptions == \E k \in Commands : SubscriptionsReturn(k)
CheckSessions == \E k \in Commands : SessionsReturn(k)
CheckFindOne == \E k \in Commands : CallFindOneReturn(k)
CheckFetch == \E k \in Commands : CallFetchReturn(k)
CheckAdd == \E k \in Commands : CallAddReturn(k)

NextCheck ==
    \/ CheckInvoke
    \/ CheckCustomers
    \/ CheckSubscriptions
    \/ CheckSessions
    \/ CheckFindOne
    \/ CheckFetch
    \/ CheckAdd
    \/ CommandReply

SpecCheck == InitCheck /\ [][NextCheck]_vars

\* /checkpayment commands interleaving with /verify and /unverify commands;
\* the payer has one customer record, with a paid session.
InitMixed ==
    /\ db = InitLinks
    /\ verifiedUsers = <<[email |-> "a@x.com", id |-> "M1"]>>
    /\ file = verifiedUsers
    /\ secret = TRUE /\ guildCached = TRUE /\ roleCached = TRUE
    /\ customers = [e \in Emails |->
                      IF e = "a@x.com" THEN <<Customer(FALSE, <<"paid">>)>> ELSE <<>>]
    /\ activeSub = [e \in Emails |-> FALSE]
    /\ roles = {}
    /\ pending = {}
    /\ emitted = 0
    /\ wh = <<>>
    /\ cmd = [k \in Commands |-> IdleCommand]
    /\ load = Loaded

NextMixed ==
    \/ CommandInvoke
    \/ CommandUpdate
    \/ CommandDelete
    \/ CommandWrite
    \/ CommandUpdateOne
    \/ CheckInvoke
    \/ CheckCustomers
    \/ CheckSubscriptions
    \/ CheckSessions
    \/ CheckFindOne
    \/ CheckFetch
    \/ CheckAdd
    \/ CommandReply

SpecMixed == InitMixed /\ [][NextMixed]_vars

\* The same as Spec with one request handled at a time.
NoneInFlight == \A i \in Slots : ~InFlight(wh[i])

NextSeq ==
    \/ NoneInFlight /\ WebhookReceive
    \/ WebhookStep

SpecSeq == Init /\ [][NextSeq]_vars

\* The normaliser over payloads with every combination of e-mail fields, one
\* request handled at a time.
NormalizerEvents == {ev \in ProviderEvents : ev.email = "a@x.com" /\ ev.mode # "payment"}
NormalizerReceive == \E i \in Slots : Receive(i, NormalizerEvents, {TRUE}, NormalizerPayloads)

NextNorm ==
    \/ NoneInFlight /\ NormalizerReceive
    \/ WebhookStep

\* The gateway is configured and the linked member holds the role.
InitNorm ==
    /\ InitHandlers
    /\ wh = [i \in Slots |-> IdleHandler]
    /\ cmd = <<>>
    /\ secret = TRUE /\ guildCached = TRUE /\ roleCached = TRUE
    /\ activeSub = [e \in Emails |-> e = "a@x.com"]
    /\ roles = {"M1"}

SpecNorm == InitNorm /\ [][NextNorm]_vars

\* ------------------------------------------------------------------ claims
Started == {i \in Slots : wh[i].pc # "idle"}
Done == {i \in Slots : wh[i].pc = "done"}
Genuine(h) == h.sig = "good" /\ secret /\ guildCached
GrantKind(ev) ==
    \/ ev.type = InvoiceSucceeded
    \/ (ev.type = CheckoutCompleted /\ ev.mode = "subscription")
RoleCalls == {"add", "remove"}
DispatchCalls == {"findOne", "fetch", "add", "remove"}
\* The provider queries that derive an entitlement (bot.js 236, 251, 259).
EntitlementQueries == {"customers.list", "subscriptions.list", "checkout.sessions.list"}
\* Outcomes of a reconciler call that did not get as far as the role check.
Unresolved == {"NoUser", "RoleNotFound", "MemberNotFound", "Failed"}

\* C1: for a linked e-mail, once no event is pending and every delivery has
\* been processed, the member holds the role iff the payer's subscription is
\* active.  Stated for the runs most favourable to it: the gateway is
\* configured, every delivery resolved its e-mail and no call failed.
Quiescent == pending = {} /\ \A i \in Slots : ~InFlight(wh[i])
CleanRun ==
    /\ secret /\ guildCached /\ roleCached
    /\ \A i \in Done :
         /\ wh[i].sig = "good"
         /\ wh[i].threw = {}
         /\ wh[i].status = 200
         /\ wh[i].ev.type \in HandledKinds => wh[i].email # None
         /\ wh[i].outcome # "MemberNotFound"
C1_Convergence ==
    (Quiescent /\ CleanRun) =>
        \A e \in Emails : db[e] # None => (db[e] \in roles <=> activeSub[e])

\* C2: an unverify whose invoker is not the member the mapping holds for the
\* e-mail (or that finds no record) replies 'not linked to your account' and
\* issues no delete and no save; no step of it changes the mapping, the file
\* or the store.
NotOwner(c) == c.name = "unverify" /\ c.pc # "idle" /\ c.seen # c.userId
C2_Refused ==
    \A k \in Commands :
        NotOwner(cmd[k]) =>
            /\ cmd[k].reply = "notLinked"
            /\ cmd[k].ops = {"reply"}
            /\ cmd[k].pc \in {"reply", "done"}
C2_Frame ==
    \A k \in Commands :
        (cmd'[k] # cmd[k] /\ NotOwner(cmd'[k])) => UNCHANGED <<verifiedUsers, db, file>>
C2_Ownership == []C2_Refused /\ [][C2_Frame]_vars
C2_Witness ==
    \E k, j \in Commands :
        /\ cmd[k].pc = "done" /\ cmd[k].name = "unverify"
        /\ cmd[k].seen = "M1" /\ cmd[k].userId = "M2"
        /\ cmd[k].reply = "notLinked"
        /\ Lookup(verifiedUsers, cmd[k].email) = "M1" /\ db[cmd[k].email] = "M1"
        /\ cmd[j].pc = "done" /\ cmd[j].name = "unverify"
        /\ cmd[j].seen = None /\ cmd[j].reply = "notLinked"

\* C3: over deliveries of one and the same event, with no call failing, the
\* role-add call, the role-remove call and the notification are each issued
\* at most once.
SameEventOnly ==
    \A i, j \in Started :
        /\ Genuine(wh[i])
        /\ wh[i].ev = wh[j].ev
        /\ wh[i].payload = wh[j].payload
        /\ wh[i].threw = {}
Issued(op) == {i \in Slots : op \in wh[i].ops}
C3_SafeRedelivery ==
    SameEventOnly =>
        /\ Cardinality(Issued("add")) <= 1
        /\ Cardinality(Issued("remove")) <= 1
        /\ Cardinality(Issued("send")) <= 1

\* C4: of two grants run one after the other for the same resolvable member,
\* the first one that adds the role ends Granted with one role-add call, the
\* next ends AlreadyGranted with none, and the member holds the role after each.
GrantOf(i) == wh[i].pc = "done" /\ wh[i].path = "assignRole" /\ wh[i].userId # None
C4_GrantIdempotent ==
    \A i \in Slots :
        /\ GrantOf(i) /\ wh[i].outcome \notin Unresolved =>
             /\ wh[i].outcome \in {"Granted", "AlreadyGranted"}
             /\ wh[i].outcome = "Granted" <=> "add" \in wh[i].ops
             /\ (\A j \in Slots : j > i => wh[j].pc = "idle") => wh[i].userId \in roles
        /\ \A j \in Slots :
             (/\ j = i + 1
              /\ GrantOf(i) /\ GrantOf(j)
              /\ wh[i].userId = wh[j].userId
              /\ wh[i].outcome = "Granted"
              /\ wh[j].outcome \notin Unresolved)
             => (wh[j].outcome = "AlreadyGranted" /\ "add" \notin wh[j].ops)
C4_Witness ==
    /\ GrantOf(1) /\ GrantOf(2)
    /\ wh[1].outcome = "Granted"
    /\ wh[2].outcome = "AlreadyGranted"
    /\ wh[1].userId = wh[2].userId

\* C5: of two revokes run one after the other for the same resolvable member
\* holding the role, the first ends Revoked after one role-remove call and one
\* notification attempt, the next ends AlreadyAbsent with neither.
RevokeOf(i) == wh[i].pc = "done" /\ wh[i].path = "handleFailedPayment" /\ wh[i].userId # None
C5_RevokeIdempotent ==
    \A i \in Slots :
        /\ RevokeOf(i) /\ wh[i].outcome \notin Unresolved =>
             /\ wh[i].outcome \in {"Revoked", "AlreadyAbsent"}
             /\ wh[i].outcome = "Revoked" <=> "remove" \in wh[i].ops
             /\ wh[i].outcome = "Revoked" <=> "send" \in wh[i].ops
             /\ (\A j \in Slots : j > i => wh[j].pc = "idle") => wh[i].userId \notin roles
        /\ \A j \in Slots :
             (/\ j = i + 1
              /\ RevokeOf(i) /\ RevokeOf(j)
              /\ wh[i].userId = wh[j].userId
              /\ wh[i].outcome = "Revoked"
              /\ wh[j].outcome \notin Unresolved)
             => (/\ wh[j].outcome = "AlreadyAbsent"
                 /\ "remove" \notin wh[j].ops
                 /\ "send" \notin wh[j].ops)
C5_Witness ==
    /\ RevokeOf(1) /\ RevokeOf(2)
    /\ wh[1].outcome = "Revoked"
    /\ wh[2].outcome = "AlreadyAbsent"
    /\ wh[1].userId = wh[2].userId

\* C6: a verified checkout-completed event with a resolved e-mail never enters
\* the grant helper when its mode is payment, and enters it, looking up the
\* resolved e-mail, when its mode is subscription.
C6_ModeGating ==
    \A i \in Slots :
        (Genuine(wh[i]) /\ wh[i].ev.type = CheckoutCompleted /\ wh[i].email # None) =>
            /\ wh[i].ev.mode = "payment" =>
                 (wh[i].path = None /\ wh[i].ops \cap DispatchCalls = {})
            /\ wh[i].ev.mode = "subscription" =>
                 /\ wh[i].path = "assignRole" /\ "findOne" \in wh[i].ops
                 /\ wh[i].email = wh[i].ev.email
                 /\ wh[i].userId \in {None, db[wh[i].email]}
C6_Witness ==
    \E i, j \in Done :
        /\ wh[i].ev.type = CheckoutCompleted /\ wh[i].ev.mode = "payment"
        /\ wh[i].email = "a@x.com" /\ wh[i].status = 200
        /\ wh[j].ev.type = CheckoutCompleted /\ wh[j].ev.mode = "subscription"
        /\ wh[j].outcome = "Granted"

\* C7: only checkout-completed(subscription) and invoice-succeeded enter the
\* grant helper and add a role, only the three failure events enter the revoke
\* helper, remove a role and notify; no event does both.
C7_DispatchRouting ==
    \A i \in Slots :
        /\ (wh[i].path = "assignRole" \/ "add" \in wh[i].ops) =>
              (GrantKind(wh[i].ev) /\ wh[i].ops \cap {"remove", "send"} = {})
        /\ (wh[i].path = "handleFailedPayment" \/ wh[i].ops \cap {"remove", "send"} # {}) =>
              (wh[i].ev.type \in FailureKinds /\ "add" \notin wh[i].ops)
        /\ (wh[i].pc = "done" /\ wh[i].status = 200 /\ wh[i].email # None) =>
              /\ GrantKind(wh[i].ev) => wh[i].path = "assignRole"
              /\ wh[i].ev.type \in FailureKinds => wh[i].path = "handleFailedPayment"
C7_Witness ==
    \E i, j \in Done :
        /\ wh[i].ev.type = InvoiceSucceeded /\ wh[i].outcome = "Granted"
        /\ wh[j].ev.type = PaymentFailed /\ wh[j].outcome = "Revoked"

\* C8: a request without a signature header, or whose signature
\* constructEvent rejects, is answered 400 and goes through no later stage:
\* no e-mail is resolved and no provider, store or platform call is issued.
\* (constructEvent is reached only with the signing secret configured.)
Rejected(h) == h.sig = None \/ (secret /\ h.sig = "bad")
C8_AuthenticationGate ==
    \A i \in Started :
        Rejected(wh[i]) =>
            /\ wh[i].pc = "done" /\ wh[i].status = 400
            /\ wh[i].ops = {} /\ wh[i].email = None
            /\ wh[i].path = None /\ wh[i].outcome = None
C8_Witness ==
    \E i, j \in Done :
        /\ secret /\ guildCached /\ roleCached
        /\ wh[i].sig = None /\ wh[i].status = 400
        /\ wh[j].sig = "bad" /\ wh[j].status = 400

\* C9: a verified event with a resolved e-mail one of whose dispatch calls
\* (store lookup, member fetch, role add, role remove) threw is not answered 200.
C9_FailureNotAcknowledged ==
    \A i \in Done :
        (Genuine(wh[i]) /\ wh[i].email # None /\ wh[i].threw \cap DispatchCalls # {})
            => wh[i].status # 200

\* C10: a webhook handler that issued a role add or remove had queried the
\* provider for the e-mail's entitlement first.
C10_EntitlementRederived ==
    \A i \in Slots :
        wh[i].ops \cap RoleCalls # {} => wh[i].ops \cap EntitlementQueries # {}

\* C11: a verified event of a handled kind whose e-mail no fallback resolved
\* (no payload field, and no customer reference or a customer lookup that
\* returned no e-mail or threw) is answered 200 and enters neither helper: no
\* store lookup, member fetch, role call or notification is issued.
EmailAbsent(h) ==
    /\ Genuine(h) /\ h.pc = "done"
    /\ h.ev.type \in HandledKinds
    /\ h.email = None
C11_AbsentEmailSkip ==
    \A i \in Slots :
        EmailAbsent(wh[i]) =>
            /\ wh[i].status = 200
            /\ wh[i].path = None /\ wh[i].outcome = None
            /\ wh[i].ops \subseteq {"retrieve"}
C11_Witness ==
    \E i, j \in Slots :
        /\ EmailAbsent(wh[i]) /\ "retrieve" \in wh[i].threw /\ wh[i].status = 200
        /\ wh[i].ev.type \in FailureKinds
        /\ EmailAbsent(wh[j]) /\ wh[j].ops = {} /\ wh[j].status = 200
        /\ GrantKind(wh[j].ev)

\* C12: a verified event whose resolved e-mail has no record in the store is
\* answered 200 once the store lookup has returned, and its handler issues no
\* member fetch, no role add or remove and no notification.
Unlinked(h) == Genuine(h) /\ h.email # None /\ h.path # None /\ db[h.email] = None
C12_UnlinkedEmail ==
    \A i \in Slots :
        Unlinked(wh[i]) =>
            /\ wh[i].ops \cap {"fetch", "add", "remove", "send"} = {}
            /\ wh[i].userId = None
            /\ (wh[i].pc = "done" /\ "findOne" \notin wh[i].threw) =>
                 (wh[i].status = 200 /\ wh[i].outcome = "NoUser")
C12_Witness ==
    \E i, j \in Done :
        /\ Unlinked(wh[i]) /\ wh[i].path = "assignRole"
        /\ wh[i].outcome = "NoUser" /\ wh[i].status = 200
        /\ Unlinked(wh[j]) /\ wh[j].path = "handleFailedPayment"
        /\ wh[j].outcome = "NoUser" /\ wh[j].status = 200

\* C13: every event that passed signature verification and whose kind is not
\* one of the five handled kinds is answered 200 with no call issued, whether
\* or not the guild is in the cache.
SignatureVerified(h) == h.sig = "good" /\ secret
C13_ForwardCompatibility ==
    \A i \in Done :
        (SignatureVerified(wh[i]) /\ wh[i].ev.type \notin HandledKinds) =>
            (wh[i].status = 200 /\ wh[i].ops = {} /\ wh[i].path = None)

\* C14: the e-mail a verified event of a handled kind is dispatched with is
\* the payload's direct field when it is there; else, for the failure kinds
\* (the ones whose payload has one), the nested billing field when it is
\* there; else the e-mail a customer lookup returned, the lookup being issued
\* exactly when the payload yielded no e-mail and has a customer reference;
\* with neither the e-mail stays absent.
HasNested(h) == h.ev.type \in FailureKinds /\ h.payload.nested # None
Normalized(h) == Genuine(h) /\ h.ev.type \in HandledKinds
C14_FallbackChain ==
    \A i \in Slots :
        Normalized(wh[i]) =>
            /\ wh[i].payload.direct # None =>
                 (wh[i].email = ToLowerCase(wh[i].payload.direct) /\ "retrieve" \notin wh[i].ops)
            /\ (wh[i].payload.direct = None /\ HasNested(wh[i])) =>
                 (wh[i].email = ToLowerCase(wh[i].payload.nested) /\ "retrieve" \notin wh[i].ops)
            /\ (wh[i].payload.direct = None /\ ~HasNested(wh[i])) =>
                 /\ "retrieve" \in wh[i].ops <=> wh[i].payload.customer
                 /\ wh[i].email \in {None, ToLowerCase(wh[i].ev.email)}
                 /\ (~wh[i].payload.customer \/ "retrieve" \in wh[i].threw) => wh[i].email = None
C14_Witness ==
    \E i, j \in Done :
        /\ Normalized(wh[i]) /\ wh[i].ev.type \in FailureKinds
        /\ wh[i].payload.direct = "A@X.com" /\ wh[i].payload.nested = "b@y.com"
        /\ wh[i].email = "a@x.com"
        /\ Normalized(wh[j]) /\ wh[j].payload.direct = None /\ ~HasNested(wh[j])
        /\ wh[j].email = ToLowerCase(wh[j].ev.email)
        /\ "retrieve" \in wh[j].ops

\* C15: a checkpayment none of whose provider queries threw decides active
\* iff some customer listed for the e-mail has an active subscription or a
\* paid session among its 10 most recent ones; it queries the customers in
\* listing order and none after the first such customer; with no customer or
\* no such customer it replies so and does not call assignRole.
Checking(c) == c.name = "checkpayment" /\ c.seen = c.userId
Decided(c) == c.reply # None \/ c.pc = "assignRole"
HasActivePayment(customer) ==
    \/ customer.sub
    \/ \E n \in 1..Len(customer.sessions) :
          n <= SessionLimit /\ customer.sessions[n] = "paid"
C15_EntitlementResolution ==
    \A k \in Commands :
        LET c == cmd[k]
            data == customers[c.email]
        IN  Checking(c) =>
              /\ \A x \in 1..Len(c.log) :
                    /\ \A y \in 1..Len(c.log) : x < y => c.log[x].at <= c.log[y].at
                    /\ \A m \in 1..Len(data) : m < c.log[x].at => ~HasActivePayment(data[m])
              /\ (Decided(c) /\ c.threw \cap EntitlementQueries = {}) =>
                    /\ c.hit <=> \E n \in 1..Len(data) : HasActivePayment(data[n])
                    /\ c.hit => HasActivePayment(data[c.at])
                    /\ ~c.hit =>
                         /\ "assignRole" \notin c.ops /\ c.call = IdleHandler
                         /\ c.reply = IF Len(data) = 0 THEN "noCustomer" ELSE "noPayment"
                    /\ (c.hit /\ guildCached) => "assignRole" \in c.ops
C15_Witness ==
    \E k \in Commands :
        /\ Checking(cmd[k]) /\ cmd[k].pc = "done"
        /\ Len(customers[cmd[k].email]) = 2
        /\ cmd[k].hit /\ cmd[k].at = 2 /\ Len(cmd[k].log) = 5
        /\ cmd[k].call.outcome = "Granted" /\ cmd[k].reply = "success"

\* C16: a checkpayment one of whose provider queries threw replies with the
\* transient error, never with 'no customer' or 'no active payment', and
\* does not call assignRole: it issues no store lookup, member fetch or role
\* call.
QueryThrew(c) == Checking(c) /\ c.threw \cap EntitlementQueries # {}
C16_CouldNotCheck ==
    \A k \in Commands :
        QueryThrew(cmd[k]) =>
            /\ cmd[k].reply = "error"
            /\ cmd[k].pc \in {"reply", "done"}
            /\ ~cmd[k].hit
            /\ "assignRole" \notin cmd[k].ops
            /\ cmd[k].call = IdleHandler
C16_Witness ==
    \E k, j \in Commands :
        /\ cmd[k].pc = "done" /\ QueryThrew(cmd[k])
        /\ "checkout.sessions.list" \in cmd[k].threw /\ cmd[k].at = 2
        /\ cmd[k].reply = "error"
        /\ cmd[j].pc = "done" /\ QueryThrew(cmd[j])
        /\ "customers.list" \in cmd[j].threw
        /\ cmd[j].reply = "error"

\* C17: a checkpayment replies 'role assigned' only when its assignRole call
\* ended Granted or AlreadyGranted, the member holding the role when the call
\* returned; stated for calls none of whose steps threw.
C17_RealGrantOutcome ==
    \A k \in Commands :
        (Checking(cmd[k]) /\ cmd[k].reply = "success" /\ cmd[k].call.threw = {}) =>
            cmd[k].call.outcome \in {"Granted", "AlreadyGranted"}

\* C18: with one command handled at a time, once a verify has issued its
\* confirmation the mapping and the store both hold its member for its e-mail,
\* whoever was linked before; no step of a verify changes the link of another
\* e-mail in the mapping or the store; a verify of a pair the mapping already
\* holds changes neither; and the mapping never has two entries for an e-mail.
LastCommand(k) == cmd[k].pc # "idle" /\ \A j \in Commands : j > k => cmd[j].pc = "idle"
Verified(c) == c.name = "verify" /\ c.reply = "verified"
OneEntryPerEmail ==
    \A x, y \in 1..Len(verifiedUsers) :
        verifiedUsers[x].email = verifiedUsers[y].email => x = y
C18_Linked ==
    /\ OneEntryPerEmail
    /\ \A k \in Commands :
         (LastCommand(k) /\ Verified(cmd[k])) =>
             /\ Lookup(verifiedUsers, cmd[k].email) = cmd[k].userId
             /\ db[cmd[k].email] = cmd[k].userId
C18_Frame ==
    \A k \in Commands :
        (cmd'[k] # cmd[k] /\ cmd'[k].name = "verify") =>
            /\ \A e \in Emails \ {cmd'[k].email} :
                 Lookup(verifiedUsers', e) = Lookup(verifiedUsers, e) /\ db'[e] = db[e]
            /\ cmd'[k].seen = cmd'[k].userId => UNCHANGED <<verifiedUsers, db>>
C18_LinkUpsert == []C18_Linked /\ [][C18_Frame]_vars
C18_Witness ==
    /\ cmd[1].pc = "done" /\ Verified(cmd[1])
    /\ cmd[1].email = "a@x.com" /\ cmd[1].seen = "M1" /\ cmd[1].userId = "M2"
    /\ cmd[2].pc = "done" /\ Verified(cmd[2])
    /\ cmd[2].email = "a@x.com" /\ cmd[2].seen = "M2" /\ cmd[2].userId = "M2"
    /\ Lookup(verifiedUsers, "a@x.com") = "M2" /\ db["a@x.com"] = "M2"

\* C19: a sweep one of whose upserts failed has still issued the upsert of
\* every entry after the failed one when its command is over.
SweepFailed(c) == c.pc = "done" /\ "updateOne" \in c.threw
C19_SweepIsolation ==
    \A k \in Commands :
        SweepFailed(cmd[k]) => Tail(cmd[k].todo) = <<>>

\* C20: with one command handled at a time, a verify or an authorized
\* unverify one of whose store writes (findOneAndUpdate, findOneAndDelete,
\* updateOne of the sweep) failed leaves the mapping with its mutation made:
\* the link present after the verify, absent after the unverify.
StoreWrites == {"findOneAndUpdate", "findOneAndDelete", "updateOne"}
StoreWriteFailed(c) == c.pc = "done" /\ c.threw \cap StoreWrites # {}
C20_MemoryKeepsResult ==
    \A k \in Commands :
        (LastCommand(k) /\ StoreWriteFailed(cmd[k])) =>
            Lookup(verifiedUsers, cmd[k].email) =
                (IF cmd[k].name = "verify" THEN cmd[k].userId ELSE None)

\* C21: every command that was invoked ends, having attempted a reply and
\* with no rejection having left its handler, whichever of its calls failed.
Ended(c) == c.pc = "done" /\ ~c.escaped /\ "reply" \in c.ops
C21_CommandBoundary ==
    \A k \in Commands : (cmd[k].pc # "idle") ~> Ended(cmd[k])

\* C22: a reload that found the file absent or corrupt, no command having
\* been invoked meanwhile, ends with the mapping empty and the empty mapping
\* written to the file, and no rejection leaves loadVerifiedUsers, also when
\* the write or the sweep of its save fails.
NoCommandYet == \A k \in Commands : cmd[k].pc = "idle"
C22_CrashRecovery ==
    (load.pc = "done" /\ "readFile" \in load.threw /\ NoCommandYet) =>
        /\ verifiedUsers = <<>>
        /\ ~load.escaped
        /\ "writeFile" \in load.ops
        /\ "writeFile" \notin load.threw => file = <<>>

\* C23: a verified failure event with a resolved e-mail enters
\* handleFailedPayment; when its member fetch returns the member, the role
\* being cached and held by the member, the role removal is issued; when the
\* removal returns the role is gone and the notification is issued; and
\* whether the notification returns or rejects the request is answered 200
\* with the role still removed.
Revoking(h) == Genuine(h) /\ h.ev.type \in FailureKinds /\ h.email # None
C23_Entered ==
    \A i \in Slots :
        Revoking(wh[i]) =>
            /\ wh[i].path = "handleFailedPayment"
            /\ (wh[i].pc = "done" /\ wh[i].outcome = "Revoked") =>
                 /\ wh[i].status = 200
                 /\ {"remove", "send"} \subseteq wh[i].ops
                 /\ "remove" \notin wh[i].threw
C23_Step ==
    \A i \in Slots :
        (Revoking(wh[i]) /\ wh'[i] # wh[i]) =>
            /\ (/\ wh[i].pc = "fetch" /\ wh'[i].threw = wh[i].threw
                /\ roleCached /\ wh[i].userId \in roles
                /\ wh'[i].outcome # "MemberNotFound")
               => (wh'[i].pc = "remove" /\ "remove" \in wh'[i].ops)
            /\ (wh[i].pc = "remove" /\ wh'[i].threw = wh[i].threw)
               => (/\ wh[i].userId \notin roles'
                   /\ wh'[i].pc = "send" /\ "send" \in wh'[i].ops
                   /\ wh'[i].outcome = "Revoked")
            /\ wh[i].pc = "send"
               => (/\ wh'[i].pc = "done" /\ wh'[i].status = 200
                   /\ wh'[i].outcome = "Revoked"
                   /\ roles' = roles /\ wh[i].userId \notin roles')
C23_RevokeOnFailure == []C23_Entered /\ [][C23_Step]_vars
C23_Witness ==
    \E i \in Done :
        /\ Revoking(wh[i]) /\ wh[i].outcome = "Revoked"
        /\ wh[i].threw = {"send"}
        /\ wh[i].status = 200
        /\ wh[i].userId \notin roles

\* C24: with the signing secret not configured every request to POST /webhook,
\* with or without a signature header, is answered 500 and goes through no
\* later stage.
C24_UnconfiguredSecret ==
    \A i \in Started :
        ~secret =>
            /\ wh[i].pc = "done" /\ wh[i].status = 500
            /\ wh[i].ops = {} /\ wh[i].email = None /\ wh[i].path = None
\* C24, amended: with the signing secret not configured every request that
\* carries a signature header is answered 500 and a request without one 400,
\* and none goes through a later stage.
C24_SecretOrHeader ==
    \A i \in Started :
        ~secret =>
            /\ wh[i].pc = "done"
            /\ wh[i].status = IF wh[i].sig = None THEN 400 ELSE 500
            /\ wh[i].ops = {} /\ wh[i].email = None /\ wh[i].path = None
C24_Witness ==
    \E i, j \in Done :
        /\ ~secret
        /\ wh[i].sig = "good" /\ wh[i].status = 500
        /\ wh[j].sig = None /\ wh[j].status = 400

\* C25: with commands interleaving at their awaits, no step of an unverify
\* removes from the mapping or from the store a link whose member is not the
\* invoker of that unverify.
C25_Step ==
    \A k \in Commands :
        (cmd'[k] # cmd[k] /\ cmd'[k].name = "unverify") =>
            \A e \in Emails :
                /\ Lookup(verifiedUsers, e) \notin {None, cmd'[k].userId} =>
                     Lookup(verifiedUsers', e) = Lookup(verifiedUsers, e)
                /\ db[e] \notin {None, cmd'[k].userId} => db'[e] = db[e]
C25_UnlinkOwnOnly == [][C25_Step]_vars

\* C26: starting with the mapping and the store equal, once every verify and
\* unverify invoked is over and none of their calls failed, the store holds
\* for every e-mail exactly the member the mapping holds.
CommandsQuiescent ==
    \A k \in Commands : cmd[k].pc \in {"idle", "done"} /\ cmd[k].threw = {}
C26_CacheStoreAgree ==
    CommandsQuiescent => \A e \in Emails : db[e] = Lookup(verifiedUsers, e)

\* C27: with /checkpayment interleaving with /verify and /unverify, a
\* checkpayment whose assignRole call has looked up its member, and all the
\* more one that issued the role-add call, has the invoker of the command as
\* that member.
C27_GrantsInvokerOnly ==
    \A k \in Commands :
        (Checking(cmd[k]) /\ "add" \in cmd[k].call.ops) =>
            cmd[k].call.userId = cmd[k].userId

\* C28: once the reload is over, the mapping holds the link of a verify that
\* made its in-memory update, no other command having been invoked.
MadeLink(c) ==
    /\ c.name = "verify"
    /\ c.pc \notin {"idle", "findOneAndUpdate"}
    /\ "findOneAndUpdate" \notin c.threw
C28_ReloadKeepsLink ==
    (load.pc = "done" /\ MadeLink(cmd[1]) /\ \A k \in Commands : k > 1 => cmd[k].pc = "idle") =>
        Lookup(verifiedUsers, cmd[1].email) = cmd[1].userId

\* C29: a checkpayment whose invoker is not the member the mapping holds for
\* the e-mail when it is invoked (or that finds no link) replies 'not
\* verified' and issues nothing else: no provider query, no store lookup, no
\* member fetch, no role call; no step of it changes the roles, the store or
\* the mapping.
NotVerified(c) == c.name = "checkpayment" /\ c.pc # "idle" /\ c.seen # c.userId
C29_Refused ==
    \A k \in Commands :
        NotVerified(cmd[k]) =>
            /\ cmd[k].reply = "notVerified"
            /\ cmd[k].ops = {"reply"}
            /\ cmd[k].log = <<>>
            /\ cmd[k].call = IdleHandler
            /\ cmd[k].pc \in {"reply", "done"}
C29_Frame ==
    \A k \in Commands :
        (cmd'[k] # cmd[k] /\ NotVerified(cmd'[k])) => UNCHANGED <<roles, db, verifiedUsers, file>>
C29_CheckGuard == []C29_Refused /\ [][C29_Frame]_vars
C29_Witness ==
    \E k, j \in Commands :
        /\ cmd[k].pc = "done" /\ NotVerified(cmd[k])
        /\ cmd[k].seen = "M1" /\ cmd[k].userId = "M2"
        /\ cmd[k].reply = "notVerified"
        /\ cmd[j].pc = "done" /\ NotVerified(cmd[j])
        /\ cmd[j].seen = None /\ cmd[j].reply = "notVerified"
        /\ roles = {}

====
